---- MODULE Spec2Model ----
(***************************************************************************)
(* AHP survey application (src/app.py): the respondent form that builds    *)
(* the pairwise comparison matrix, calculate_cr, the submission handler    *)
(* that persists a response, and the admin export that reads it back.      *)
(*                                                                         *)
(* Reading of the source.  Lines 274-323 and 326-383 of app.py carry the   *)
(* indentation of a block whose header is not in the file, and line 325    *)
(* (the submit button) is followed by a body at its own indentation.  The  *)
(* model takes the evident nesting: the respondent page runs for a project *)
(* whose criteria are loaded, lines 295-323 run on every script run, and   *)
(* lines 326-362 are the body of the button of line 325.                   *)
(*                                                                         *)
(* Numbers.  Matrix cells are numpy float64 values; they are modelled as   *)
(* IEEE 754 binary64 numbers (53-bit significand, round to nearest even)   *)
(* so that "1 / value" and products are computed as the program computes   *)
(* them.  Significands are held as sequences of 13-bit limbs because the   *)
(* model checker's integers have 32 bits.                                  *)
(***************************************************************************)
EXTENDS Integers, Sequences, FiniteSets, TLC

VARIABLES
    criteria,   \* the project's criterion names, in stored order
    choice,     \* form: selected option index of selectbox c_i_j, per pair
    value,      \* form: selected option of selectbox v_i_j, per pair
    k,          \* form: pairs the loop of the current script run has processed
    matrix,     \* form: the matrix of the current script run
    cr_arg,     \* calculate_cr: the argument of the call
    cr_ret,     \* calculate_cr: how the call ended
    sess,       \* submission: per browser session, the script run's locals
    responses,  \* table responses, committed rows in insertion order
    matrices,   \* table matrices, committed rows in insertion order
    txn,        \* the open write transaction and its uncommitted rows
    uuids,      \* how many uuid4 values have been drawn
    runs,       \* how many times the submit button has been pressed
    submitted   \* history: per response id, what the submitting run held

formVars == <<choice, value, k, matrix>>
crVars == <<cr_arg, cr_ret>>
storeVars == <<sess, responses, matrices, txn, uuids, runs, submitted>>
vars == <<criteria, formVars, crVars, storeVars>>

(***************************************************************************)
(* Natural numbers as sequences of limbs, least significant first.         *)
(***************************************************************************)
Base == 2 ^ 13

RECURSIVE BitLen(_)
BitLen(x) == IF x = 0 THEN 0 ELSE 1 + BitLen(x \div 2)

LimbBits == BitLen(Base) - 1

RECURSIVE Norm(_)
Norm(N) == IF N # << >> /\ N[Len(N)] = 0 THEN Norm(SubSeq(N, 1, Len(N) - 1)) ELSE N

Limb(N, i) == IF i \in 1..Len(N) THEN N[i] ELSE 0

RECURSIVE Carry(_, _, _)
Carry(cols, i, c) ==
    IF i > Len(cols)
    THEN IF c = 0 THEN << >> ELSE <<c % Base>> \o Carry(cols, i, c \div Base)
    ELSE <<(cols[i] + c) % Base>> \o Carry(cols, i + 1, (cols[i] + c) \div Base)

RECURSIVE ColSum(_, _, _, _)
ColSum(a, b, kk, i) ==
    IF i > Len(a) THEN 0 ELSE a[i] * Limb(b, kk + 1 - i) + ColSum(a, b, kk, i + 1)

NatMul(a, b) == Norm(Carry([kk \in 1..(Len(a) + Len(b)) |-> ColSum(a, b, kk, 1)], 1, 0))
NatOfInt(x) == Norm(Carry(<<x>>, 1, 0))
NatPow2(d) == [i \in 1..(d \div LimbBits + 1) |->
                  IF i = d \div LimbBits + 1 THEN 2 ^ (d % LimbBits) ELSE 0]
NatBitLen(N) == IF N = << >> THEN 0 ELSE (Len(N) - 1) * LimbBits + BitLen(N[Len(N)])
NatBit(N, i) == (Limb(N, i \div LimbBits + 1) \div (2 ^ (i % LimbBits))) % 2
NatShiftR(N, d) ==
    LET q == d \div LimbBits
        r == d % LimbBits
    IN  Norm([i \in 1..(Len(N) - q) |->
                 (N[i + q] \div (2 ^ r))
                 + (Limb(N, i + q + 1) % (2 ^ r)) * (2 ^ (LimbBits - r))])
NatInc(N) == Norm(Carry(N, 1, 1))

RECURSIVE LongDiv(_, _, _, _)
\* quotient limbs (most significant first) of N / v from limb i down, then the remainder
LongDiv(N, v, i, r) ==
    IF i = 0 THEN <<r>>
    ELSE <<(r * Base + N[i]) \div v>> \o LongDiv(N, v, i - 1, (r * Base + N[i]) % v)

Rev(s) == [i \in 1..Len(s) |-> s[Len(s) + 1 - i]]

(***************************************************************************)
(* float64: a positive number is [m, e] with value m * 2^e and m of        *)
(* exactly Prec bits, so equal numbers have equal representations.         *)
(***************************************************************************)
Prec == 53

\* the natural N times 2^e, rounded to Prec bits, ties to even
RoundNat(N, e) ==
    LET d == NatBitLen(N) - Prec
    IN  IF d <= 0 THEN [m |-> NatMul(N, NatPow2(-d)), e |-> e + d]
        ELSE LET kept == NatShiftR(N, d)
                 up == NatBit(N, d - 1) = 1
                       /\ (NatBit(kept, 0) = 1 \/ \E i \in 0..(d - 2) : NatBit(N, i) = 1)
                 r == IF up THEN NatInc(kept) ELSE kept
             IN  IF NatBitLen(r) > Prec THEN [m |-> NatShiftR(r, 1), e |-> e + d + 1]
                 ELSE [m |-> r, e |-> e + d]

\* the natural N times 2^e cut to Prec bits (rounding toward zero)
TruncNat(N, e) ==
    LET d == NatBitLen(N) - Prec
    IN  IF d <= 0 THEN [m |-> NatMul(N, NatPow2(-d)), e |-> e + d]
        ELSE [m |-> NatShiftR(N, d), e |-> e + d]

\* float(v) of a Python int: lines 319 and 322 store it into the float64 array
FromInt(v) == RoundNat(NatOfInt(v), 0)

\* the quotient 2^(s+Prec) / v with one sticky bit appended, and its exponent
RecipBits(v) ==
    LET s == BitLen(v - 1)
        num == NatPow2(s + Prec)
        qr == LongDiv(num, v, Len(num), 0)
        Q2 == NatMul(Norm(Rev(SubSeq(qr, 1, Len(num)))), <<2>>)
    IN  [n |-> IF qr[Len(num) + 1] > 0 THEN NatInc(Q2) ELSE Q2, e |-> -(s + Prec + 1)]

\* a division that cuts the quotient instead of rounding it
RecipTruncated(v) == TruncNat(RecipBits(v).n, RecipBits(v).e)

\* 1 / value of lines 320 and 323: Python's correctly rounded true division
Recip(v) == RoundNat(RecipBits(v).n, RecipBits(v).e)

One == FromInt(1)

\* the two conversions for the intensities the form offers, tabulated once
Float64Of == [v \in 1..9 |-> FromInt(v)]
ReciprocalOf == [v \in 1..9 |-> Recip(v)]

(***************************************************************************)
(* The respondent form, lines 293-323.                                     *)
(***************************************************************************)
\* criterion lists a project can hold: line 116 asks for non-empty names only,
\* so repeated names are possible
CriteriaLists == {<<"A", "B">>, <<"A", "A">>, <<"A", "B", "C">>}

N == Len(criteria)

\* criteria[i] with the program's 0-based index
Criterion(i) == criteria[i + 1]

RECURSIVE PairsFrom(_, _, _)
PairsFrom(i, j, n) ==
    IF i >= n - 1 THEN << >>
    ELSE IF j >= n THEN PairsFrom(i + 1, i + 2, n)
    ELSE <<(<<i, j>>)>> \o PairsFrom(i, j + 1, n)

\* line 295: itertools.combinations(range(len(criteria)), 2)
PairsOf(n) == PairsFrom(0, 1, n)
pairs == PairsOf(N)

\* line 296: np.ones((len(criteria), len(criteria)))
Ones(n) == [i \in 0..(n - 1) |-> [j \in 0..(n - 1) |-> One]]

\* line 313: the "" option of the intensity selectbox (falsy, like 0)
Blank == 0
IntensityOptions == {Blank} \cup (1..9)

\* line 306: the options of the winner selectbox of pair (i, j)
ChoiceOptions(i, j) == <<"", Criterion(i), Criterion(j)>>
ChoiceIndexes == 0..2

\* what st.selectbox of line 304 returns for pair p when option chs[p] is selected
Choice(chs, p) == ChoiceOptions(pairs[p][1], pairs[p][2])[chs[p] + 1]

\* lines 317-323 with both branches writing the same cells
ApplyJudgmentSameBranch(m, i, j, ch, v) ==
    IF ch # "" /\ v # Blank
    THEN [m EXCEPT ![i][j] = Float64Of[v], ![j][i] = ReciprocalOf[v]]
    ELSE m

\* lines 317-323 with the winner test inverted
ApplyJudgmentSwapped(m, i, j, ch, v) ==
    IF ch # "" /\ v # Blank
    THEN IF ch # Criterion(i)
         THEN [m EXCEPT ![i][j] = Float64Of[v], ![j][i] = ReciprocalOf[v]]
         ELSE [m EXCEPT ![j][i] = Float64Of[v], ![i][j] = ReciprocalOf[v]]
    ELSE m

\* lines 317-323
ApplyJudgment(m, i, j, ch, v) ==
    IF ch # "" /\ v # Blank
    THEN IF ch = Criterion(i)
         THEN [m EXCEPT ![i][j] = Float64Of[v], ![j][i] = ReciprocalOf[v]]
         ELSE [m EXCEPT ![j][i] = Float64Of[v], ![i][j] = ReciprocalOf[v]]
    ELSE m

RECURSIVE LoopFrom(_, _, _, _)
LoopFrom(m, p, chs, vals) ==
    IF p > Len(pairs) THEN m
    ELSE LoopFrom(ApplyJudgment(m, pairs[p][1], pairs[p][2], Choice(chs, p), vals[p]),
                  p + 1, chs, vals)

\* lines 295-323 as a whole: the matrix a script run builds from the widgets
BuildMatrix(chs, vals) == LoopFrom(Ones(N), 1, chs, vals)

NoChoices == [p \in 1..Len(pairs) |-> 0]
NoValues == [p \in 1..Len(pairs) |-> Blank]

(***************************************************************************)
(* calculate_cr, lines 26-38.  Real results are fixed-point numbers in     *)
(* units of 10^-6; a float64 division by zero yields nan or an infinity.   *)
(***************************************************************************)
Fin(x) == [t |-> "fin", x |-> x]
NaN == [t |-> "nan"]
Inf == [t |-> "inf"]
NegInf == [t |-> "-inf"]
Null == [t |-> "null"]

\* lines 26-29, in hundredths
RI == (1 :> 0) @@ (2 :> 0) @@ (3 :> 58) @@ (4 :> 90) @@ (5 :> 112)
      @@ (6 :> 124) @@ (7 :> 132) @@ (8 :> 141) @@ (9 :> 145) @@ (10 :> 149)

\* x / (num / den) for a numpy float64 x: no exception on a zero divisor
FloatDiv(x, num, den) ==
    IF x.t # "fin" THEN x
    ELSE IF num = 0
         THEN IF x.x = 0 THEN NaN ELSE IF x.x > 0 THEN Inf ELSE NegInf
         ELSE Fin((x.x * den) \div num)

\* round(x, digits) of a float: to a multiple of 10^(6-digits), ties to even
RoundTo(x, digits) ==
    LET u == 10 ^ (6 - digits)
        q == x.x \div u
        r == x.x % u
    IN  IF x.t # "fin" THEN x
        ELSE IF 2 * r > u \/ (2 * r = u /\ q % 2 = 1) THEN Fin((q + 1) * u)
        ELSE Fin(q * u)

\* the size of a matrix held as a function on 0..n-1 (matrix.shape[0], line 33)
Len0(m) == Cardinality(DOMAIN m)

\* lines 34-35, as lambda_max - n for the eigenvalues numpy may return for an
\* n x n positive reciprocal matrix: exactly 0 for n = 1; else a rounding error
\* of the solver around 0 (one unit stands for it) or a positive excess
LambdaExcess(m) == IF Len0(m) = 1 THEN {0} ELSE {-1, 0, 1, 52200}

\* lines 36-38 for a given lambda_max - n
ConsistencyRatio(n, excess) ==
    LET CI == FloatDiv(Fin(excess), n - 1, 1)
        CR == IF n \in DOMAIN RI THEN FloatDiv(CI, RI[n], 100) ELSE Fin(0)
    IN  RoundTo(CR, 4)

\* lines 31-38: the ways a call can end. np.linalg.eig raises LinAlgError when
\* the eigenvalue iteration does not converge
calculate_cr(m) ==
    {[t |-> "raise", exc |-> "LinAlgError"]}
    \cup {[t |-> "return", v |-> ConsistencyRatio(Len0(m), e)] : e \in LambdaExcess(m)}

(***************************************************************************)
(* Submission (lines 325-362) and the admin export (lines 159-257).        *)
(***************************************************************************)
Sessions == {"s1", "s2"}
UserNames == {"Ana", "Luis"}
NoSession == "none"
NoId == 0
ProjectId == "p1"

\* how often the submit button is pressed in one behaviour
MaxRuns == 2

\* what a respondent may have entered when pressing the button: nothing, the
\* first pair only, or every pair
FormSamples ==
    {[p \in 1..Len(pairs) |-> <<0, Blank>>],
     [p \in 1..Len(pairs) |-> IF p = 1 THEN <<1, 3>> ELSE <<0, Blank>>],
     [p \in 1..Len(pairs) |-> <<2, 5>>]}

\* all pairs carry a judgment
Complete(chs, vals) == \A p \in 1..Len(pairs) : chs[p] # 0 /\ vals[p] # Blank

IdleSession ==
    [pc |-> "form", user_name |-> "", choice |-> NoChoices, value |-> NoValues,
     matrix |-> << >>, cr |-> Null, response_id |-> NoId, hist |-> << >>]

\* the script run of a session ends: its widget values, matrix and cr go out of
\* scope; what the run was and did stays on record
Ended(r, how) ==
    [r EXCEPT !.pc = how, !.choice = NoChoices, !.value = NoValues,
              !.matrix = << >>, !.cr = Null]

NoTxn == [owner |-> NoSession, responses |-> << >>, matrices |-> << >>]

\* SQLite stores a NaN bound to a REAL column as NULL
StoreReal(x) == IF x = NaN THEN Null ELSE x

\* lines 340-348: the row of table responses
ResponseRow(s, rid) ==
    [id |-> rid, project_id |-> ProjectId, user_name |-> sess[s].user_name,
     cr |-> StoreReal(sess[s].cr), file_path |-> Null]

\* lines 351-360: the rows of table matrices, i outer and j inner
MatrixRows(rid, m) ==
    [c \in 1..(Len0(m) * Len0(m)) |->
        [response_id |-> rid, i |-> (c - 1) \div Len0(m), j |-> (c - 1) % Len0(m),
         value |-> m[(c - 1) \div Len0(m)][(c - 1) % Len0(m)]]]

\* lines 293-315: the widget values the rerun of the script reads
Collected(nm, f) ==
    [IdleSession EXCEPT !.pc = "run", !.user_name = nm,
                        !.choice = [p \in 1..Len(pairs) |-> f[p][1]],
                        !.value = [p \in 1..Len(pairs) |-> f[p][2]],
                        !.hist = <<"collected">>]

\* lines 295-323 of the run
Build(r) ==
    [r EXCEPT !.pc = "built", !.matrix = BuildMatrix(r.choice, r.value),
              !.hist = Append(@, "built")]

\* lines 326-328 without the st.stop()
CheckNameNoStop(r) == [r EXCEPT !.pc = "named"]

\* lines 326-328
CheckName(r) == IF r.user_name = "" THEN Ended(r, "stopped") ELSE [r EXCEPT !.pc = "named"]

\* line 331: the ways the run can go on; an exception of calculate_cr ends it
Evaluate(r) ==
    IF r.pc # "named" THEN {r}
    ELSE {IF out.t = "raise" THEN Ended(r, "failed")
          ELSE [r EXCEPT !.pc = "evaluated", !.cr = out.v,
                         !.hist = Append(@, "evaluated")] : out \in calculate_cr(r.matrix)}

\* the respondent presses "Enviar encuesta" (line 325) with the widgets as given:
\* the script reruns with these widget values, up to its first statement on the
\* database (lines 293-331)
Click(s, nm, f) ==
    /\ sess[s].pc \in {"form", "done", "stopped", "failed"}
    /\ runs < MaxRuns
    /\ runs' = runs + 1
    /\ \E r \in Evaluate(CheckName(Build(Collected(nm, f)))) :
          sess' = [sess EXCEPT ![s] = r]
    /\ UNCHANGED <<responses, matrices, txn, uuids, submitted>>

\* lines 334-348: a fresh id, then the first INSERT, which takes the database's
\* write lock and opens the transaction
Begin(s) ==
    /\ sess[s].pc = "evaluated"
    /\ txn.owner = NoSession
    /\ uuids' = uuids + 1
    /\ sess' = [sess EXCEPT ![s].pc = "txn", ![s].response_id = uuids + 1]
    /\ txn' = [owner |-> s, responses |-> <<ResponseRow(s, uuids + 1)>>, matrices |-> << >>]
    /\ submitted' = submitted @@
          ((uuids + 1) :> [matrix |-> sess[s].matrix, session |-> s,
                           row |-> ResponseRow(s, uuids + 1),
                           complete |-> Complete(sess[s].choice, sess[s].value)])
    /\ UNCHANGED <<responses, matrices, runs>>

\* lines 334-348 while another connection holds the write lock: the INSERT gives
\* up after the busy timeout with "database is locked"
BeginBusy(s) ==
    /\ sess[s].pc = "evaluated"
    /\ txn.owner \notin {NoSession, s}
    /\ uuids' = uuids + 1
    /\ sess' = [sess EXCEPT ![s] = Ended(sess[s], "failed")]
    /\ UNCHANGED <<responses, matrices, txn, runs, submitted>>

\* lines 351-360
InsertMatrix(s) ==
    /\ sess[s].pc = "txn"
    /\ txn.owner = s
    /\ txn.matrices = << >>
    /\ txn' = [txn EXCEPT !.matrices = MatrixRows(sess[s].response_id, sess[s].matrix)]
    /\ UNCHANGED <<sess, responses, matrices, uuids, runs, submitted>>

\* line 362
Commit(s) ==
    /\ sess[s].pc = "txn"
    /\ txn.owner = s
    /\ txn.matrices # << >>
    /\ responses' = responses \o txn.responses
    /\ matrices' = matrices \o txn.matrices
    /\ txn' = NoTxn
    /\ sess' = [sess EXCEPT ![s] = Ended([sess[s] EXCEPT !.hist = Append(@, "persisted")],
                                         "done")]
    /\ UNCHANGED <<uuids, runs, submitted>>

\* a failing statement whose rows written so far stay in the tables
AbortKeepsRows(s) ==
    /\ sess[s].pc = "txn"
    /\ txn.owner = s
    /\ responses' = responses \o txn.responses
    /\ matrices' = matrices \o txn.matrices
    /\ txn' = NoTxn
    /\ sess' = [sess EXCEPT ![s] = Ended(sess[s], "failed")]
    /\ UNCHANGED <<uuids, runs, submitted>>

\* lines 336-362: a statement inside the with block raises (an I/O error, a full
\* disk); the connection's context manager rolls the transaction back
Abort(s) ==
    /\ sess[s].pc = "txn"
    /\ txn.owner = s
    /\ txn' = NoTxn
    /\ sess' = [sess EXCEPT ![s] = Ended(sess[s], "failed")]
    /\ submitted' = [rid \in DOMAIN submitted \ {sess[s].response_id} |-> submitted[rid]]
    /\ UNCHANGED <<responses, matrices, uuids, runs>>

\* lines 161-166: the responses of the selected project, in table order
ProjectResponses == SelectSeq(responses, LAMBDA r : r.project_id = ProjectId)

\* line 173: the label of a response, f"{user} (CR={round(cr,3)})", as the pair
\* of its two variable parts
ResponseLabel(r) == <<r.user_name, RoundTo(r.cr, 3)>>

\* line 173 raises TypeError on round(None, 3) when a stored cr is NULL
LabelsRaise == \E x \in 1..Len(ProjectResponses) : ProjectResponses[x].cr = Null

\* lines 172-175: the dict comprehension, a later response replacing an earlier
\* one under the same label
response_map ==
    [l \in {ResponseLabel(ProjectResponses[x]) : x \in 1..Len(ProjectResponses)} |->
        LET last == CHOOSE x \in 1..Len(ProjectResponses) :
                       /\ ResponseLabel(ProjectResponses[x]) = l
                       /\ \A y \in (x + 1)..Len(ProjectResponses) :
                             ResponseLabel(ProjectResponses[y]) # l
        IN  ProjectResponses[last].id]

\* lines 232-257: the member names written to the ZIP, f"Respuestas_{user}.xlsx",
\* each as its variable part
ZipNames == [x \in 1..Len(ProjectResponses) |-> ProjectResponses[x].user_name]

RECURSIVE LoadFrom(_, _, _)
LoadFrom(m, rid, x) ==
    IF x > Len(matrices) THEN m
    ELSE IF matrices[x].response_id = rid
         THEN LoadFrom([m EXCEPT ![matrices[x].i][matrices[x].j] = matrices[x].value],
                       rid, x + 1)
         ELSE LoadFrom(m, rid, x + 1)

\* lines 191-202 and 235-244: the matrix the export rebuilds for a response
LoadMatrix(rid) == LoadFrom(Ones(N), rid, 1)

(***************************************************************************)
(* Specifications.                                                         *)
(***************************************************************************)
FormIdle ==
    /\ choice = NoChoices
    /\ value = NoValues
    /\ k = 0
    /\ matrix = Ones(N)

CRIdle ==
    /\ cr_arg = Ones(1)
    /\ cr_ret = [t |-> "none"]

StoreIdle ==
    /\ sess = [s \in Sessions |-> IdleSession]
    /\ responses = << >>
    /\ matrices = << >>
    /\ txn = NoTxn
    /\ uuids = 0
    /\ runs = 0
    /\ submitted = << >>

\* the respondent form of one session, one loop iteration at a time
InitForm ==
    /\ criteria \in CriteriaLists
    /\ FormIdle
    /\ CRIdle
    /\ StoreIdle

\* the respondent picks an option of selectbox c_i_j; Streamlit reruns the script,
\* which starts again at lines 295-296
SelectChoice(p, idx) ==
    /\ choice[p] # idx
    /\ choice' = [choice EXCEPT ![p] = idx]
    /\ k' = 0
    /\ matrix' = Ones(N)
    /\ UNCHANGED <<criteria, value, crVars, storeVars>>

\* the respondent picks an option of selectbox v_i_j; the script reruns
SelectValue(p, v) ==
    /\ value[p] # v
    /\ value' = [value EXCEPT ![p] = v]
    /\ k' = 0
    /\ matrix' = Ones(N)
    /\ UNCHANGED <<criteria, choice, crVars, storeVars>>

\* one iteration of the loop of lines 300-323
ProcessPair ==
    /\ k < Len(pairs)
    /\ matrix' = ApplyJudgment(matrix, pairs[k + 1][1], pairs[k + 1][2],
                               Choice(choice, k + 1), value[k + 1])
    /\ k' = k + 1
    /\ UNCHANGED <<criteria, choice, value, crVars, storeVars>>

\* the intensities the respondent tries: every option on the first pair, the
\* blank, the smallest, a middle and the largest one on the other pairs
IntensitySamples == {Blank, 1, 5, 9}
Tried(p) == IF p = 1 THEN IntensityOptions ELSE IntensitySamples

NextForm ==
    \/ \E p \in 1..Len(pairs), idx \in ChoiceIndexes : SelectChoice(p, idx)
    \/ \E p \in 1..Len(pairs) : \E v \in Tried(p) : SelectValue(p, v)
    \/ ProcessPair

SpecForm == InitForm /\ [][NextForm]_vars

\* calculate_cr as a function of its argument: reciprocal matrices of every size
\* up to MaxSize, with no judgment or with one judgment on the pair (0, 1)
MaxSize == 11

Judged(n, w, v) ==
    IF w = 0
    THEN [Ones(n) EXCEPT ![0][1] = Float64Of[v], ![1][0] = ReciprocalOf[v]]
    ELSE [Ones(n) EXCEPT ![1][0] = Float64Of[v], ![0][1] = ReciprocalOf[v]]

CRInputs ==
    {Ones(n) : n \in 1..MaxSize}
    \cup {Judged(n, w, v) : n \in 2..MaxSize, w \in 0..1, v \in 1..9}

InitCR ==
    /\ criteria = <<"A", "B">>
    /\ FormIdle
    /\ StoreIdle
    /\ cr_arg \in CRInputs
    /\ cr_ret = [t |-> "none"]

Call ==
    /\ cr_ret = [t |-> "none"]
    /\ cr_ret' \in calculate_cr(cr_arg)
    /\ UNCHANGED <<criteria, formVars, cr_arg, storeVars>>

NextCR == Call

SpecCR == InitCR /\ [][NextCR]_vars

\* the two sessions are interchangeable: the first press is taken to be this one's
FirstSession == "s1"

\* submissions of two browser sessions against one project
Init ==
    /\ criteria \in CriteriaLists
    /\ FormIdle
    /\ CRIdle
    /\ StoreIdle

Next ==
    \/ \E s \in Sessions, nm \in UserNames \cup {""}, f \in FormSamples :
          /\ runs = 0 => s = FirstSession
          /\ Click(s, nm, f)
          /\ UNCHANGED <<criteria, formVars, crVars>>
    \/ \E s \in Sessions : Begin(s) /\ UNCHANGED <<criteria, formVars, crVars>>
    \/ \E s \in Sessions : BeginBusy(s) /\ UNCHANGED <<criteria, formVars, crVars>>
    \/ \E s \in Sessions : InsertMatrix(s) /\ UNCHANGED <<criteria, formVars, crVars>>
    \/ \E s \in Sessions : Commit(s) /\ UNCHANGED <<criteria, formVars, crVars>>
    \/ \E s \in Sessions : Abort(s) /\ UNCHANGED <<criteria, formVars, crVars>>

Spec == Init /\ [][Next]_vars

(***************************************************************************)
(* Operators used to state the properties.                                 *)
(***************************************************************************)
\* the float64 product x * y, rounded to nearest even
FMul(x, y) == RoundNat(NatMul(x.m, y.m), x.e + y.e)

\* the products of the cell values the form can write, tabulated once
CellValues == {Float64Of[v] : v \in 1..9} \cup {ReciprocalOf[v] : v \in 1..9}
ProductOf == [c \in CellValues \X CellValues |-> FMul(c[1], c[2])]
Product(x, y) ==
    IF x \in CellValues /\ y \in CellValues THEN ProductOf[<<x, y>>] ELSE FMul(x, y)

Indexes == 0..(N - 1)
UniqueNames == \A i, j \in Indexes : i # j => Criterion(i) # Criterion(j)

\* pair p has been processed by the loop and carries a judgment
Answered(p) == p <= k /\ choice[p] # 0 /\ value[p] # Blank

\* the index the respondent picked as the winner of an answered pair
Winner(p) == pairs[p][choice[p]]

PairIndex(i, j) ==
    CHOOSE p \in 1..Len(pairs) : pairs[p] = IF i < j THEN <<i, j>> ELSE <<j, i>>

\* the matrix the builder's contract prescribes after k pairs
Reference ==
    [i \in Indexes |-> [j \in Indexes |->
        IF i = j \/ ~Answered(PairIndex(i, j)) THEN One
        ELSE IF Winner(PairIndex(i, j)) = i THEN Float64Of[value[PairIndex(i, j)]]
        ELSE ReciprocalOf[value[PairIndex(i, j)]]]]

\* the two cells the code writes for pair p when option c and intensity v are selected
JudgmentCells(p, c, v) ==
    LET i == pairs[p][1]
        j == pairs[p][2]
        m == ApplyJudgment(matrix, i, j, ChoiceOptions(i, j)[c + 1], v)
    IN  <<m[i][j], m[j][i]>>

\* the (winner option, intensity) selections that yield the cells pair p holds
Decodings(p) ==
    {d \in (1..2) \X (1..9) :
        JudgmentCells(p, d[1], d[2]) = <<matrix[pairs[p][1]][pairs[p][2]],
                                         matrix[pairs[p][2]][pairs[p][1]]>>}

(***************************************************************************)
(* Properties of the respondent form (SpecForm).                           *)
(***************************************************************************)
\* C1: after any number of processed pairs the matrix has a diagonal of ones and
\* matrix[i][j] * matrix[j][i] is exactly 1 in float64 arithmetic for all i # j.
ReciprocalExact ==
    /\ \A i \in Indexes : matrix[i][i] = One
    /\ \A i, j \in Indexes : i # j => Product(matrix[i][j], matrix[j][i]) = One

\* C1 witness: three criteria, every pair answered, both winners, intensities 7, 5, 9
ReciprocalExactWitness ==
    /\ N = 3 /\ k = 3
    /\ choice = <<1, 2, 1>>
    /\ value = <<7, 5, 9>>
    /\ matrix[0][2] = ReciprocalOf[5] /\ matrix[1][2] = Float64Of[9]

\* C2: with unique criterion names the matrix equals the reference cell by cell:
\* intensity and 1/intensity in the winner's and the loser's cell of every
\* answered pair, 1 in the cells of unanswered pairs and on the diagonal.
MatchesReference == UniqueNames => matrix = Reference

\* C2 witness: A beats B with 3, C beats A with 5, B against C unanswered
MatchesReferenceWitness ==
    /\ criteria = <<"A", "B", "C">> /\ k = 3
    /\ choice = <<1, 2, 0>>
    /\ value = <<3, 5, Blank>>
    /\ matrix[0][1] = Float64Of[3] /\ matrix[2][0] = Float64Of[5]

\* C6 as stated: winner and intensity of every answered pair are recovered from
\* its two cells, that is, no other judgment yields the same cells.
RoundTripAll ==
    \A p \in 1..Len(pairs) : Answered(p) => Decodings(p) = {<<choice[p], value[p]>>}

\* C6 amended: the intensity of every answered pair is recovered from its cells,
\* and the winner too when the intensity is at least 2 and the two criteria have
\* different names.
RoundTripAmended ==
    \A p \in 1..Len(pairs) :
        Answered(p) =>
            /\ \A d \in Decodings(p) : d[2] = value[p]
            /\ <<choice[p], value[p]>> \in Decodings(p)
            /\ (value[p] >= 2 /\ Criterion(pairs[p][1]) # Criterion(pairs[p][2]))
                  => Decodings(p) = {<<choice[p], value[p]>>}

\* C6 witness: intensity 1 on one pair, larger intensities and both winners elsewhere
RoundTripWitness ==
    /\ criteria = <<"A", "B", "C">> /\ k = 3
    /\ choice = <<2, 1, 2>>
    /\ value = <<1, 9, 5>>

(***************************************************************************)
(* Properties of calculate_cr (SpecCR).                                    *)
(***************************************************************************)
\* C3: for a matrix of size 1 or 2 a call that returns, returns 0.
SmallSizeZero ==
    (cr_ret.t = "return" /\ Len0(cr_arg) <= 2) => cr_ret.v = Fin(0)

\* C4: for a size outside the Random-Index table a call whose eigenvalue
\* computation succeeds ends with UnsupportedSize, and not with a returned CR.
UnsupportedSizeSignalled ==
    (Len0(cr_arg) \notin DOMAIN RI /\ cr_ret.t # "none"
     /\ cr_ret # [t |-> "raise", exc |-> "LinAlgError"])
        => cr_ret = [t |-> "raise", exc |-> "UnsupportedSize"]

(***************************************************************************)
(* Properties of submission and export (Spec).                             *)
(***************************************************************************)
Order == <<"collected", "built", "evaluated", "persisted">>
IsPrefix(h, o) == Len(h) <= Len(o) /\ \A x \in 1..Len(h) : h[x] = o[x]
Steps(s) == {sess[s].hist[x] : x \in 1..Len(sess[s].hist)}

\* the rows, uncommitted or committed, that the current run of session s has written
RowsOf(s) ==
    (IF txn.owner = s THEN Len(txn.responses) + Len(txn.matrices) ELSE 0)
    + Cardinality({x \in 1..Len(responses) :
                      /\ sess[s].response_id # NoId
                      /\ responses[x].id = sess[s].response_id})
    + Cardinality({x \in 1..Len(matrices) :
                      /\ sess[s].response_id # NoId
                      /\ matrices[x].response_id = sess[s].response_id})

\* C7: the steps of every run occur in the order collected, built, evaluated,
\* persisted; a run writes rows only after its CR was evaluated, and a run whose
\* respondent name is empty or whose CR evaluation failed writes no row.
SubmissionOrder ==
    \A s \in Sessions :
        /\ IsPrefix(sess[s].hist, Order)
        /\ sess[s].pc = "done" => sess[s].hist = Order
        /\ ("evaluated" \notin Steps(s) \/ sess[s].user_name = "") => RowsOf(s) = 0
        /\ sess[s].response_id # NoId => "evaluated" \in Steps(s)

\* C7 witness: one run has persisted its response, another ended in calculate_cr
SubmissionOrderWitness ==
    \E s, t \in Sessions :
        /\ sess[s].pc = "done" /\ RowsOf(s) = 1 + N * N
        /\ sess[t].pc = "failed" /\ sess[t].hist = <<"collected", "built">>

\* C8: every persisted response was submitted with a judgment on every pair.
OnlyCompletePersisted ==
    \A x \in 1..Len(responses) : submitted[responses[x].id].complete

\* C9: every persisted response has one responses row and n*n matrices rows, one
\* per cell, under an id no other response has; no matrices row is without its
\* responses row; the rows are those its run wrote, and the export rebuilds from
\* them exactly the matrix of that run.
StoredResponsesWhole ==
    /\ \A x \in 1..Len(responses) :
          LET rid == responses[x].id
          IN  /\ \A y \in 1..Len(responses) : responses[y].id = rid => y = x
              /\ rid \in DOMAIN submitted
              /\ responses[x] = submitted[rid].row
              /\ Cardinality({y \in 1..Len(matrices) : matrices[y].response_id = rid})
                    = N * N
              /\ \A i, j \in Indexes :
                    \E y \in 1..Len(matrices) :
                        /\ matrices[y].response_id = rid
                        /\ matrices[y].i = i /\ matrices[y].j = j
              /\ LoadMatrix(rid) = submitted[rid].matrix
    /\ \A y \in 1..Len(matrices) :
          \E x \in 1..Len(responses) : responses[x].id = matrices[y].response_id

\* C9 witness: two sessions have persisted different 3 x 3 matrices
StoredResponsesWitness ==
    /\ Len(responses) = 2
    /\ submitted[responses[1].id].session # submitted[responses[2].id].session
    /\ submitted[responses[1].id].matrix # submitted[responses[2].id].matrix
    /\ N = 3

\* C10: the label map of the download list has one entry per persisted response,
\* and the ZIP member names are pairwise distinct.
AllSelectable ==
    /\ Cardinality(DOMAIN response_map) = Len(ProjectResponses)
    /\ \A x, y \in 1..Len(ProjectResponses) : ZipNames[x] = ZipNames[y] => x = y
====
